---------------------------- MODULE Spec2Model ----------------------------
(***************************************************************************)
(* Passwordless (WebAuthn) authentication views of app/auth/view.py.       *)
(*                                                                         *)
(* The handlers of view.py are modelled one action per handler.  The       *)
(* modules `auth.security` and `models` that the handlers call are not     *)
(* part of the available sources; their operators below follow sections    *)
(* 3, 4.2 and 4.3 of the specification.                                    *)
(***************************************************************************)
EXTENDS Integers, Sequences, FiniteSets, TLC

----------------------------------------------------------------------------
(* Bounds of the model *)

NumSessions == 1
NumConcurrent == 2
MaxUsers == 2
NumCredIds == 2
NumChallenges == 1
MaxCounter == 1

\* Python's None: a falsy value that is no uid, credential id or challenge.
None == 0
Sessions == 1 .. NumSessions
\* the browser sessions whose registrations overlap (SpecConc)
ConcSessions == 1 .. NumConcurrent
Uids == 1 .. MaxUsers
CredIds == 1 .. NumCredIds
Challenges == 1 .. NumChallenges
Counters == 0 .. MaxCounter

----------------------------------------------------------------------------
(* Strings: sequences of characters, so that lower-casing is computed *)

LowerChar(c) ==
    CASE c = "A" -> "a"
      [] c = "L" -> "l"
      [] c = "B" -> "b"
      [] OTHER -> c

\* str.lower() of the query, func.lower() of the stored column
Lower(str) == [i \in DOMAIN str |-> LowerChar(str[i])]

\* The values the username and email fields of the user creation form are
\* filled with
FormUsernames == { <<"a", "l">>, <<"A", "L">>, <<"b">> }

FormEmails == { <<"a", "l">>, <<"b">> }

\* The values the username_email field of the login form is filled with
QueryStrings == FormUsernames \cup { <<"A", "l">>, <<"B">>, <<"a">>, <<>> }

----------------------------------------------------------------------------
VARIABLES
    users,      \* models.User rows: [uid, username, email]
    creds,      \* Credential Store rows: [id, owner, counter]
    session,    \* flask session of each browser session
    cookie,     \* the user_uid cookie each browser holds (None: no cookie)
    pending,    \* Challenge Session State: the PendingChallenge of each kind
    inflight,   \* a registration between verification and insert (per session)
    last        \* the response to the latest request, and what produced it

vars == <<users, creds, session, cookie, pending, inflight, last>>

NoChallenge == [user |-> None, challenge |-> None]

\* the body of a request that has none
NoBody == [kind |-> "none", id |-> None, challenge |-> None,
           sig_ok |-> FALSE, counter |-> 0]

NoInflight == [active |-> FALSE, user |-> None, body |-> NoBody, seen |-> {}]

\* A response: the handler, the HTTP status, the "verified" member of its JSON
\* body ("none": no such body).  The other fields are filled in by the handlers:
\*   set_cookie  the user_uid cookie the response sets (Deleted: delete_cookie)
\*   err         the exception or error message that ended the request
\*   reason      the diagnostic reason an Invalid...Response carries
\*   ran         the verifier ran against a pending challenge
\*   vuser       the user passed to the verifier
\*   options     the response carries credential creation / request options
\* and the request it answers: the session (sid), the body of a completion
\* request, the username_email field of prepare_login (query) and the username
\* and email fields of create_user (form).
Response(op, status, verified) ==
    [op |-> op, status |-> status, verified |-> verified, set_cookie |-> None,
     err |-> "", reason |-> "", ran |-> FALSE, vuser |-> None,
     options |-> FALSE, sid |-> None, body |-> NoBody, query |-> <<>>,
     form |-> <<>>]

Answer(s, resp) == [resp EXCEPT !.sid = s]

AnswerBody(s, body, resp) == [resp EXCEPT !.sid = s, !.body = body]

\* delete_cookie in a response
Deleted == -1

\* the browser's cookie after a response
ApplyCookie(jar, set_cookie) ==
    IF set_cookie = None THEN jar
    ELSE IF set_cookie = Deleted THEN None
    ELSE set_cookie

\* An empty database and `S` browser sessions that sent no request yet
InitWith(S) ==
    /\ users = {}
    /\ creds = {}
    /\ session = [s \in S |->
                    [registration_user_uid |-> None, login_user_uid |-> None]]
    /\ cookie = [s \in S |-> None]
    /\ pending = [s \in S |->
                    [registration |-> NoChallenge, authentication |-> NoChallenge]]
    /\ inflight = [s \in S |-> NoInflight]
    /\ last = Response("none", 0, "none")

Init == InitWith(Sessions)

----------------------------------------------------------------------------
(* models.User *)

\* User.query.filter_by(uid=uid).first(): the uid of the row, or None
UserByUid(uid) == IF \E u \in users : u.uid = uid THEN uid ELSE None

\* the unique constraints on username and on email
IntegrityError(username, email) ==
    \E u \in users : u.username = username \/ u.email = email

\* uuid of a new row: a uid no row has
NewUid == Cardinality(users) + 1

----------------------------------------------------------------------------
(* Request bodies *)

NotJson == [kind |-> "notjson", id |-> None, challenge |-> None,
            sig_ok |-> FALSE, counter |-> 0]

NotCredential == [kind |-> "notcred", id |-> None, challenge |-> None,
                  sig_ok |-> FALSE, counter |-> 0]

\* The client chooses the challenge it sends back: an issued value or any other.
ClientChallenges == 1 .. NumChallenges + 1

\* A body that parses as a credential: the credential identifier, the challenge
\* the client data embeds, whether origin, RP id and signature check out, and
\* the authenticator's signature counter.
CredentialBodies ==
    [kind : {"cred"}, id : CredIds, challenge : ClientChallenges,
     sig_ok : BOOLEAN, counter : Counters]

Bodies == {NotJson, NotCredential} \cup CredentialBodies

----------------------------------------------------------------------------
(* auth.security: Ceremony Option Builder and Ceremony Verifier *)

\* BuildRegistrationOptions / BuildAuthenticationOptions: the PendingChallenge
\* recorded for `uid` with the random challenge `c`
prepare_credential_creation(uid, c) == [user |-> uid, challenge |-> c]

prepare_login_with_credential(uid, c) == [user |-> uid, challenge |-> c]

VerifierResult(err, reason, ran, store, pend) ==
    [err |-> err, reason |-> reason, ran |-> ran, creds |-> store, pend |-> pend]

\* VerifyRegistration steps 1, 2: "" when the response verifies
CheckRegistration(p, uid, r) ==
    IF p = NoChallenge THEN "NoPendingChallenge"
    ELSE IF ~(r.challenge = p.challenge /\ r.sig_ok /\ p.user = uid)
         THEN "InvalidRegistrationResponse"
    ELSE ""

\* Faulty variant of InsertCredential: an upsert, which replaces the stored row
OverwriteCredential(store, row, seen) ==
    [err |-> "", creds |-> { c \in store : c.id # row.id } \cup {row}]

\* VerifyRegistration step 3: insert if absent.  `seen` are the identifiers the
\* insert is checked against (the store's, at the time of the insert).
InsertCredential(store, row, seen) ==
    IF row.id \in seen THEN [err |-> "DuplicateCredential", creds |-> store]
    ELSE [err |-> "", creds |-> store \cup {row}]

StoredIds(store) == { c.id : c \in store }

\* Faulty variant of Consume: the challenge stays pending after an attempt
KeepChallenge(p) == p

\* The PendingChallenge after a verification attempt: consumed
Consume(p) == NoChallenge

\* VerifyRegistration when step 1 or 2 fails
RegistrationFailure(e, p, store) ==
    IF e = "NoPendingChallenge" THEN VerifierResult(e, "", FALSE, store, p)
    ELSE VerifierResult(e, "verification", TRUE, store, Consume(p))

\* VerifyRegistration step 3 on a verified response
SaveCredential(p, store, uid, id, counter, seen) ==
    LET ins == InsertCredential(store,
                   [id |-> id, owner |-> uid, counter |-> counter], seen)
    IN  VerifierResult(ins.err, "", TRUE, ins.creds, Consume(p))

verify_and_save_credential(p, store, uid, r) ==
    LET e == CheckRegistration(p, uid, r)
    IN  IF e # "" THEN RegistrationFailure(e, p, store)
        ELSE SaveCredential(p, store, uid, r.id, r.counter, StoredIds(store))

\* Faulty variant of CounterFresh: an equal counter is accepted
CounterNotLower(new, stored) == new >= stored

\* signature-counter freshness
CounterFresh(new, stored) == new > stored \/ (new = 0 /\ stored = 0)

SetCounter(store, id, n) ==
    { IF c.id = id THEN [c EXCEPT !.counter = n] ELSE c : c \in store }

\* the credential `id` owned by `uid`, as a set of at most one row
OwnedCredential(store, uid, id) == { c \in store : c.id = id /\ c.owner = uid }

verify_authentication_credential(p, store, uid, r) ==
    LET found == OwnedCredential(store, uid, r.id)
    IN  IF p = NoChallenge
        THEN VerifierResult("NoPendingChallenge", "", FALSE, store, p)
        ELSE IF found = {}
        THEN VerifierResult("UnknownCredential", "", TRUE, store, Consume(p))
        ELSE LET c == CHOOSE x \in found : TRUE
             IN  IF ~(r.challenge = p.challenge /\ r.sig_ok /\ p.user = c.owner)
                 THEN VerifierResult("InvalidAuthenticationResponse",
                                     "verification", TRUE, store, Consume(p))
                 ELSE IF ~CounterFresh(r.counter, c.counter)
                 THEN VerifierResult("InvalidAuthenticationResponse",
                                     "ReplayedCounter", TRUE, store, Consume(p))
                 ELSE VerifierResult("", "", TRUE,
                                     SetCounter(store, r.id, r.counter), Consume(p))

----------------------------------------------------------------------------
(* app/auth/view.py: the handlers *)

\* GET /register
register(s) ==
    /\ last' = Answer(s, Response("register", 200, "none"))
    /\ UNCHANGED <<users, creds, session, cookie, pending, inflight>>

\* the stored user the form collides with (the one of the username first)
ExistingUid(username, email) ==
    LET byName == { u \in users : u.username = username }
        byMail == { u \in users : u.email = email }
    IN  (CHOOSE u \in (IF byName # {} THEN byName ELSE byMail) : TRUE).uid

\* Faulty variant of create_user_rejected: registration_user_uid is written
\* before the commit, so it is set on the failure path too
create_user_rejected_binds(s, username, email) ==
    /\ last' = Answer(s, [Response("create_user", 200, "none")
                             EXCEPT !.err = "DuplicateUser",
                                    !.form = <<username, email>>])
    /\ session' = [session EXCEPT ![s].registration_user_uid =
                                     ExistingUid(username, email)]
    /\ UNCHANGED <<users, creds, cookie, pending, inflight>>

\* Faulty variant of create_user_rejected: on a collision the stored user is
\* looked up and registration options are issued for it
create_user_rejected_reissues(s, username, email) ==
    /\ \E c \in Challenges :
         pending' = [pending EXCEPT ![s].registration =
                        prepare_credential_creation(
                            ExistingUid(username, email), c)]
    /\ session' = [session EXCEPT ![s].registration_user_uid =
                                     ExistingUid(username, email)]
    /\ last' = Answer(s, [Response("create_user", 200, "none")
                             EXCEPT !.options = TRUE,
                                    !.form = <<username, email>>])
    /\ UNCHANGED <<users, creds, cookie, inflight>>

\* create_user, lines 41-46: the commit raised IntegrityError
create_user_rejected(s, username, email) ==
    /\ last' = Answer(s, [Response("create_user", 200, "none")
                             EXCEPT !.err = "DuplicateUser",
                                    !.form = <<username, email>>])
    /\ UNCHANGED <<users, creds, session, cookie, pending, inflight>>

\* POST /create-user
create_user(s, username, email) ==
    IF IntegrityError(username, email)
    THEN create_user_rejected(s, username, email)
    ELSE /\ Cardinality(users) < MaxUsers
         /\ \E c \in Challenges :
              pending' = [pending EXCEPT ![s].registration =
                             prepare_credential_creation(NewUid, c)]
         /\ users' = users \cup
                {[uid |-> NewUid, username |-> username, email |-> email]}
         /\ session' = [session EXCEPT ![s].registration_user_uid = NewUid]
         /\ last' = Answer(s, [Response("create_user", 200, "none")
                                  EXCEPT !.options = TRUE,
                                         !.form = <<username, email>>])
         /\ UNCHANGED <<creds, cookie, inflight>>

\* what the verifier was called with and raised
Verified(resp, v, uid) ==
    [resp EXCEPT !.err = v.err, !.reason = v.reason, !.ran = v.ran, !.vuser = uid]

\* Faulty variant of AddCredentialResponse: every path ends in the abort of
\* line 94
AddCredentialResponseFallThrough(v, uid) ==
    Verified(Response("add_credential", 400, "false"), v, uid)

\* Faulty variant of AddCredentialResponse: the 201 response sets no cookie
AddCredentialResponseNoCookie(v, uid) ==
    IF v.err = ""
    THEN Verified(Response("add_credential", 201, "true"), v, uid)
    ELSE IF v.err = "InvalidRegistrationResponse"
    THEN Verified(Response("add_credential", 400, "false"), v, uid)
    ELSE Verified(Response("add_credential", 500, "none"), v, uid)

\* add_credential, lines 75-94: the response to the verifier's result
AddCredentialResponse(v, uid) ==
    IF v.err = ""
    THEN [Verified(Response("add_credential", 201, "true"), v, uid)
             EXCEPT !.set_cookie = uid]
    ELSE IF v.err = "InvalidRegistrationResponse"
    THEN Verified(Response("add_credential", 400, "false"), v, uid)
    ELSE Verified(Response("add_credential", 500, "none"), v, uid)

\* the exception json.loads or parse_*_credential_json raises on the body, or ""
ParseError(body) ==
    IF body.kind = "notjson" THEN "JSONDecodeError"
    ELSE IF body.kind = "notcred" THEN "InvalidJSONStructure"
    ELSE ""

\* add_credential, lines 75-94, given the verifier's result
AddCredentialFinish(s, body, user, v) ==
    /\ last' = AnswerBody(s, body, AddCredentialResponse(v, user))
    /\ creds' = v.creds
    /\ pending' = [pending EXCEPT ![s].registration = v.pend]
    /\ session' = IF v.err = ""
                  THEN [session EXCEPT ![s].registration_user_uid = None]
                  ELSE session
    /\ cookie' = [cookie EXCEPT ![s] = ApplyCookie(@, last'.set_cookie)]

\* Faulty variant of NoRegistrationUser: the check of line 64 is missing
NeverMissing(user_uid) == FALSE

\* add_credential, line 64: `if not user_uid`
NoRegistrationUser(user_uid) == user_uid = None

\* POST /add-credential
add_credential(s, body) ==
    LET user_uid == session[s].registration_user_uid
        user == UserByUid(user_uid)
        v == verify_and_save_credential(pending[s].registration, creds, user, body)
    IN  IF NoRegistrationUser(user_uid)
        THEN /\ last' = AnswerBody(s, body,
                            [Response("add_credential", 400, "none")
                                EXCEPT !.err = "Error user not found"])
             /\ UNCHANGED <<users, creds, session, cookie, pending, inflight>>
        ELSE IF ParseError(body) # ""
        THEN /\ last' = AnswerBody(s, body,
                            [Response("add_credential", 500, "none")
                                EXCEPT !.err = ParseError(body)])
             /\ UNCHANGED <<users, creds, session, cookie, pending, inflight>>
        ELSE /\ AddCredentialFinish(s, body, user, v)
             /\ UNCHANGED <<users, inflight>>

\* Faulty variant of BindLogin: the uid is written under the registration key
BindRegistrationKey(sess, uid) == [sess EXCEPT !.registration_user_uid = uid]

\* login line 109, prepare_login line 143: session['login_user_uid'] = user.uid
BindLogin(sess, uid) == [sess EXCEPT !.login_user_uid = uid]

\* GET /login
login(s) ==
    LET user_uid == cookie[s]
        user == UserByUid(user_uid)
    IN  IF user = None
        THEN /\ last' = Answer(s, Response("login", 200, "none"))
             /\ UNCHANGED <<users, creds, session, cookie, pending, inflight>>
        ELSE /\ \E c \in Challenges :
                  pending' = [pending EXCEPT ![s].authentication =
                                 prepare_login_with_credential(user, c)]
             /\ session' = [session EXCEPT ![s] = BindLogin(@, user)]
             /\ last' = Answer(s, [Response("login", 200, "none")
                                      EXCEPT !.options = TRUE])
             /\ UNCHANGED <<users, creds, cookie, inflight>>

\* Faulty variant of MatchingUsers: the query is compared as typed (no .lower())
MatchingUsersQueryAsTyped(username_email) ==
    { u \in users : \/ Lower(u.username) = username_email
                    \/ Lower(u.email) = username_email }

\* prepare_login, lines 117-124: the rows the filter matches
MatchingUsers(username_email) ==
    LET username_or_email == Lower(username_email)
    IN  { u \in users : \/ Lower(u.username) = username_or_email
                        \/ Lower(u.email) = username_or_email }

\* POST /prepare-login
prepare_login(s, username_email) ==
    IF MatchingUsers(username_email) = {}
    THEN /\ last' = Answer(s, [Response("prepare_login", 200, "none")
                                  EXCEPT !.err = "No matching user found",
                                         !.query = username_email])
         /\ UNCHANGED <<users, creds, session, cookie, pending, inflight>>
    ELSE \E user \in MatchingUsers(username_email) :
           /\ \E c \in Challenges :
                pending' = [pending EXCEPT ![s].authentication =
                               prepare_login_with_credential(user.uid, c)]
           /\ session' = [session EXCEPT ![s] = BindLogin(@, user.uid)]
           /\ last' = Answer(s, [Response("prepare_login", 200, "none")
                                    EXCEPT !.set_cookie = user.uid,
                                           !.options = TRUE,
                                           !.query = username_email])
           /\ cookie' = [cookie EXCEPT ![s] = ApplyCookie(@, last'.set_cookie)]
           /\ UNCHANGED <<users, creds, inflight>>

\* Faulty variant of ForgetLogin: only the cookie is deleted
KeepLogin(sess) == sess

\* login_switch_user, line 158: session["login_user_uid"] = None
ForgetLogin(sess) == [sess EXCEPT !.login_user_uid = None]

\* GET /login-switch-user
login_switch_user(s) ==
    /\ session' = [session EXCEPT ![s] = ForgetLogin(@)]
    /\ last' = Answer(s, [Response("login_switch_user", 302, "none")
                             EXCEPT !.set_cookie = Deleted])
    /\ cookie' = [cookie EXCEPT ![s] = ApplyCookie(@, last'.set_cookie)]
    /\ UNCHANGED <<users, creds, pending, inflight>>

\* verify_login_credential, lines 177-182: the response to the verifier's result
VerifyLoginResponse(v, uid) ==
    IF v.err = ""
    THEN Verified(Response("verify_login_credential", 200, "true"), v, uid)
    ELSE IF v.err = "InvalidAuthenticationResponse"
    THEN Verified(Response("verify_login_credential", 400, "false"), v, uid)
    ELSE Verified(Response("verify_login_credential", 500, "none"), v, uid)

\* Faulty variant of LoginUser: the user of the user_uid cookie, not the session's
RememberedUser(s) == UserByUid(cookie[s])

\* verify_login_credential, lines 167-168: the user verification is run against
LoginUser(s) == UserByUid(session[s].login_user_uid)

\* POST /verify-login-credential
verify_login_credential(s, body) ==
    LET user == LoginUser(s)
        v == verify_authentication_credential(pending[s].authentication, creds,
                                              user, body)
    IN  IF user = None
        THEN /\ last' = AnswerBody(s, body,
                            Response("verify_login_credential", 400, "false"))
             /\ UNCHANGED <<users, creds, session, cookie, pending, inflight>>
        ELSE IF ParseError(body) # ""
        THEN /\ last' = AnswerBody(s, body,
                            [Response("verify_login_credential", 500, "none")
                                EXCEPT !.err = ParseError(body)])
             /\ UNCHANGED <<users, creds, session, cookie, pending, inflight>>
        ELSE /\ last' = AnswerBody(s, body, VerifyLoginResponse(v, user))
             /\ creds' = v.creds
             /\ pending' = [pending EXCEPT ![s].authentication = v.pend]
             /\ cookie' = [cookie EXCEPT ![s] = ApplyCookie(@, last'.set_cookie)]
             /\ UNCHANGED <<users, session, inflight>>

----------------------------------------------------------------------------
(* Requests handled one at a time *)

Next ==
    \/ \E s \in Sessions : register(s)
    \/ \E s \in Sessions, username \in FormUsernames, email \in FormEmails :
         create_user(s, username, email)
    \/ \E s \in Sessions, body \in Bodies : add_credential(s, body)
    \/ \E s \in Sessions : login(s)
    \/ \E s \in Sessions, q \in QueryStrings : prepare_login(s, q)
    \/ \E s \in Sessions : login_switch_user(s)
    \/ \E s \in Sessions, body \in Bodies : verify_login_credential(s, body)

Spec == Init /\ [][Next]_vars

----------------------------------------------------------------------------
(* Overlapping registrations: add_credential of different sessions interleave *)
(* between the verification of the response and the insert into the store.    *)

\* Faulty variant of InsertSeen: check-then-insert, the check being the one made
\* when the response was verified
StaleSeen(s) == inflight[s].seen

\* the identifiers the store checks an insert against: its own, atomically
InsertSeen(s) == StoredIds(creds)

\* add_credential up to the verified response (lines 63-76, steps 1 and 2)
add_credential_verify(s, body) ==
    LET user_uid == session[s].registration_user_uid
        user == UserByUid(user_uid)
        p == pending[s].registration
        e == CheckRegistration(p, user, body)
    IN  /\ ~inflight[s].active
        /\ IF NoRegistrationUser(user_uid)
           THEN /\ last' = AnswerBody(s, body,
                               [Response("add_credential", 400, "none")
                                   EXCEPT !.err = "Error user not found"])
                /\ UNCHANGED <<users, creds, session, cookie, pending, inflight>>
           ELSE IF ParseError(body) # ""
           THEN /\ last' = AnswerBody(s, body,
                               [Response("add_credential", 500, "none")
                                   EXCEPT !.err = ParseError(body)])
                /\ UNCHANGED <<users, creds, session, cookie, pending, inflight>>
           ELSE IF e # ""
           THEN /\ AddCredentialFinish(s, body, user,
                                       RegistrationFailure(e, p, creds))
                /\ UNCHANGED <<users, inflight>>
           ELSE /\ inflight' = [inflight EXCEPT ![s] =
                                   [active |-> TRUE, user |-> user,
                                    body |-> body, seen |-> StoredIds(creds)]]
                /\ pending' = [pending EXCEPT ![s].registration = Consume(p)]
                /\ UNCHANGED <<users, creds, session, cookie, last>>

\* add_credential from the insert on (step 3, lines 78-91)
add_credential_insert(s) ==
    LET f == inflight[s]
    IN  /\ f.active
        /\ AddCredentialFinish(s, f.body, f.user,
               SaveCredential(pending[s].registration, creds, f.user,
                              f.body.id, f.body.counter, InsertSeen(s)))
        /\ inflight' = [inflight EXCEPT ![s] = NoInflight]
        /\ UNCHANGED users

\* A session sends its requests one after the other; the requests of different
\* sessions overlap.
NextConc ==
    \/ \E s \in ConcSessions, username \in FormUsernames, email \in FormEmails :
         ~inflight[s].active /\ create_user(s, username, email)
    \/ \E s \in ConcSessions, body \in Bodies : add_credential_verify(s, body)
    \/ \E s \in ConcSessions : add_credential_insert(s)

SpecConc == InitWith(ConcSessions) /\ [][NextConc]_vars

----------------------------------------------------------------------------
(* What the claims speak of *)

\* the step answers a request to handler `op` sent in session `s`
Req(op, s) == last'.op = op /\ last'.sid = s

\* the response is not {"verified": true}
Rejected(resp) == resp.verified # "true"

\* the credentials `uid` owns
CredentialsOf(store, uid) == { c \in store : c.owner = uid }

----------------------------------------------------------------------------
\* C1: a pending ceremony is single-use.  A completion request that runs the
\* verifier against the pending challenge of its kind consumes it, whether
\* verification succeeds or fails; a completion request that finds none is
\* rejected without running verification and changes no stored credential;
\* and only a Begin of the same kind (create_user; login or prepare_login)
\* makes a challenge pending again.
C1_SingleUse ==
    [][\A s \in Sessions :
        /\ Req("add_credential", s) =>
             /\ last'.ran => pending'[s].registration = NoChallenge
             /\ pending[s].registration = NoChallenge =>
                  /\ ~last'.ran
                  /\ Rejected(last')
                  /\ creds' = creds
                  /\ pending'[s].registration = NoChallenge
        /\ Req("verify_login_credential", s) =>
             /\ last'.ran => pending'[s].authentication = NoChallenge
             /\ pending[s].authentication = NoChallenge =>
                  /\ ~last'.ran
                  /\ Rejected(last')
                  /\ creds' = creds
                  /\ pending'[s].authentication = NoChallenge
        /\ (pending[s].registration = NoChallenge
              /\ pending'[s].registration # NoChallenge)
             => Req("create_user", s)
        /\ (pending[s].authentication = NoChallenge
              /\ pending'[s].authentication # NoChallenge)
             => (Req("login", s) \/ Req("prepare_login", s))
      ]_vars

\* C1 witness: after a failed add_credential the session still names the user,
\* and a second add_credential with a well-formed response was answered "no
\* pending challenge" without verification.
C1_Witness ==
    /\ last.op = "add_credential"
    /\ last.err = "NoPendingChallenge"
    /\ ~last.ran
    /\ last.body.kind = "cred" /\ last.body.sig_ok
    /\ session[last.sid].registration_user_uid # None

----------------------------------------------------------------------------
\* C2: failure is all-or-nothing.  Whenever add_credential or
\* verify_login_credential is not answered {"verified": true}, the Credential
\* Store after the request equals the store before it.
C2_AllOrNothing ==
    [][\A s \in Sessions :
        ((Req("add_credential", s) \/ Req("verify_login_credential", s))
           /\ Rejected(last'))
        => creds' = creds
      ]_vars

\* C2 witness: an authentication response for a stored credential of the
\* session user, signed correctly but carrying a challenge that was never
\* issued, was answered 400 {"verified": false}.
C2_Witness ==
    /\ last.op = "verify_login_credential"
    /\ last.status = 400 /\ last.verified = "false"
    /\ last.err = "InvalidAuthenticationResponse"
    /\ last.body.sig_ok
    /\ last.body.challenge \notin Challenges
    /\ OwnedCredential(creds, last.vuser, last.body.id) # {}

----------------------------------------------------------------------------
\* C3: signature-counter anti-replay.  An authentication whose response counter
\* is less than or equal to the stored counter of the credential is rejected
\* and changes nothing, except when both are zero; a successful authentication
\* sets the stored counter to the response counter; over every step, each
\* credential stays in the store with its owner and a counter not lower than
\* before.
C3_CounterAntiReplay ==
    [][/\ \A s \in Sessions :
            (Req("verify_login_credential", s) /\ last'.body.kind = "cred") =>
              LET b == last'.body
                  target == OwnedCredential(creds, session[s].login_user_uid, b.id)
              IN  /\ \A c \in target :
                        (b.counter <= c.counter
                           /\ ~(b.counter = 0 /\ c.counter = 0))
                        => (Rejected(last') /\ creds' = creds)
                  /\ ~Rejected(last') =>
                        /\ target # {}
                        /\ \A c \in target :
                              [c EXCEPT !.counter = b.counter] \in creds'
       /\ \A c \in creds :
            \E d \in creds' :
               d.id = c.id /\ d.owner = c.owner /\ d.counter >= c.counter
      ]_vars

\* C3 witness: a response whose counter is not above the non-zero stored
\* counter of the credential was rejected as a replayed counter.
C3_Witness ==
    /\ last.op = "verify_login_credential"
    /\ last.status = 400
    /\ last.reason = "ReplayedCounter"
    /\ \E c \in OwnedCredential(creds, last.vuser, last.body.id) :
          c.counter > 0 /\ last.body.counter <= c.counter

----------------------------------------------------------------------------
\* C4: a registration response whose credential identifier is already in the
\* Credential Store is rejected and leaves the store as it was (the stored row
\* is not overwritten); when the response passes steps 1 and 2 of
\* VerifyRegistration (a challenge is pending for the session user, the
\* response embeds it, origin and signature check out) the failure is
\* DuplicateCredential.
C4_DuplicateCredential ==
    [][\A s \in Sessions :
        (Req("add_credential", s) /\ last'.body.kind = "cred"
           /\ last'.body.id \in StoredIds(creds))
        => LET b == last'.body
               uid == session[s].registration_user_uid
               p == pending[s].registration
           IN  /\ Rejected(last')
               /\ creds' = creds
               /\ (uid # None /\ p # NoChallenge /\ p.user = uid
                     /\ b.challenge = p.challenge /\ b.sig_ok)
                  => last'.err = "DuplicateCredential"
      ]_vars

\* C4 witness: a registration for one user presented the identifier of a
\* credential another user owns and failed with DuplicateCredential.
C4_Witness ==
    /\ last.op = "add_credential"
    /\ last.err = "DuplicateCredential"
    /\ \E c \in creds : c.id = last.body.id /\ c.owner # last.vuser

----------------------------------------------------------------------------
\* C5: in every state reached by interleaved add_credential requests of
\* different sessions, no two rows of the Credential Store share a credential
\* identifier: an identifier belongs to at most one user, and of overlapping
\* inserts of one identifier at most one succeeds.
C5_UniqueCredentialId ==
    \A c1 \in creds, c2 \in creds : c1.id = c2.id => c1 = c2

\* C5 witness: while a session's verified registration waits for its insert,
\* another session's insert of the same identifier, begun after the first was
\* verified, succeeded.
C5_Witness ==
    \E s \in ConcSessions :
       /\ inflight[s].active
       /\ inflight[s].body.id \notin inflight[s].seen
       /\ \E c \in creds : c.id = inflight[s].body.id /\ c.owner # inflight[s].user

----------------------------------------------------------------------------
\* C6: authentication is bound to the user of the pending ceremony.
\* verify_login_credential runs the verifier only for the user the session
\* records in login_user_uid, a successful verification is one of a challenge
\* issued for that user, and a response whose credential identifier is absent
\* from the store or owned by another user is rejected without changing the
\* store, as UnknownCredential whenever a challenge is pending.
C6_BoundToSessionUser ==
    [][\A s \in Sessions :
        Req("verify_login_credential", s) =>
          LET uid == session[s].login_user_uid
              p == pending[s].authentication
              b == last'.body
          IN  /\ last'.vuser # None => last'.vuser = uid
              /\ ~Rejected(last') => (last'.vuser = uid /\ p.user = uid)
              /\ (b.kind = "cred" /\ OwnedCredential(creds, uid, b.id) = {})
                 => /\ Rejected(last')
                    /\ creds' = creds
                    /\ (uid # None /\ p # NoChallenge)
                         => last'.err = "UnknownCredential"
      ]_vars

\* C6 witness: a response naming a credential that another user owns was
\* rejected as UnknownCredential.
C6_Witness ==
    /\ last.op = "verify_login_credential"
    /\ last.err = "UnknownCredential"
    /\ last.vuser = session[last.sid].login_user_uid
    /\ \E c \in creds : c.id = last.body.id /\ c.owner # last.vuser

----------------------------------------------------------------------------
\* C7: every completion request ends in {"verified": true} or in a response
\* with status 400.
C7_TwoOutcomes ==
    last.op \in {"add_credential", "verify_login_credential"}
    => (last.verified = "true" \/ last.status = 400)

----------------------------------------------------------------------------
\* C8: end-to-end registration.  When add_credential receives, in a session
\* whose registration challenge is pending for the user create_user made, a
\* response that embeds that challenge, checks out and carries a credential
\* identifier not yet in the store, the answer is 201 {"verified": true}, the
\* user owns exactly one credential, and the response sets the user_uid cookie
\* to that user's uid.
C8_EndToEndRegistration ==
    [][\A s \in Sessions :
        LET b == last'.body
            uid == session[s].registration_user_uid
            p == pending[s].registration
        IN  (Req("add_credential", s) /\ b.kind = "cred"
               /\ uid # None /\ p # NoChallenge /\ p.user = uid
               /\ b.challenge = p.challenge /\ b.sig_ok
               /\ b.id \notin StoredIds(creds))
            => /\ last'.verified = "true" /\ last'.status = 201
               /\ Cardinality(CredentialsOf(creds', uid)) = 1
               /\ last'.set_cookie = uid
               /\ cookie'[s] = uid
      ]_vars

\* C8 witness: a registration was verified, its user owns one credential and
\* the browser holds the user's uid in the user_uid cookie.
C8_Witness ==
    /\ last.op = "add_credential"
    /\ last.verified = "true"
    /\ Cardinality(CredentialsOf(creds, last.vuser)) = 1
    /\ cookie[last.sid] = last.vuser

----------------------------------------------------------------------------
\* C9: the response to every successful verify_login_credential sets the
\* user_uid cookie to the authenticated user's uid.
C9_CookieOnAuthentication ==
    (last.op = "verify_login_credential" /\ last.verified = "true")
    => last.set_cookie = last.vuser

----------------------------------------------------------------------------
\* C10: identity resolution is case-insensitive.  When the lower-cased query
\* equals the lower-cased username or email of some stored user, prepare_login
\* issues options for a user of whom that is true and records that user in the
\* session; when it equals those of no stored user, prepare_login reports "No
\* matching user found", issues nothing and leaves the session alone.
C10_CaseInsensitiveResolution ==
    [][\A s \in Sessions :
        Req("prepare_login", s) =>
          LET q == last'.query
              M == { u \in users : \/ Lower(u.username) = Lower(q)
                                   \/ Lower(u.email) = Lower(q) }
          IN  /\ M # {} =>
                   /\ last'.err = "" /\ last'.options
                   /\ session'[s].login_user_uid \in { u.uid : u \in M }
                   /\ pending'[s].authentication.user = session'[s].login_user_uid
              /\ M = {} =>
                   /\ last'.err = "No matching user found"
                   /\ ~last'.options
                   /\ session' = session /\ pending' = pending
      ]_vars

\* C10 witness: a query in another case than the stored username and email
\* resolved the user.
C10_Witness ==
    /\ last.op = "prepare_login"
    /\ last.options
    /\ \E u \in users :
          /\ u.uid = session[last.sid].login_user_uid
          /\ u.username # last.query /\ u.email # last.query
          /\ (Lower(u.username) = Lower(last.query)
                \/ Lower(u.email) = Lower(last.query))

----------------------------------------------------------------------------
\* C11: ambiguous or missing input to identity resolution yields not-found.
\* When the username_email field is empty, or the lower-cased query matches
\* more than one stored user, prepare_login reports "No matching user found",
\* issues no authentication options and sets neither login_user_uid nor the
\* user_uid cookie.
C11_AmbiguousNotFound ==
    [][\A s \in Sessions :
        (Req("prepare_login", s)
           /\ (last'.query = <<>>
                 \/ Cardinality(MatchingUsers(last'.query)) > 1))
        => /\ last'.err = "No matching user found"
           /\ ~last'.options
           /\ last'.set_cookie = None
           /\ session'[s].login_user_uid = session[s].login_user_uid
           /\ pending'[s].authentication = pending[s].authentication
      ]_vars

----------------------------------------------------------------------------
\* a request that can be sent now begins a registration ceremony for `uid`
CanBeginRegistration(uid) ==
    ENABLED (/\ Next
             /\ last'.options
             /\ last'.op \notin {"login", "prepare_login"}
             /\ pending'[last'.sid].registration.user = uid)

\* `uid` is a stored user who owns no credential and for whom no registration
\* challenge is pending in any session
WithoutRegistration(uid) ==
    /\ UserByUid(uid) # None
    /\ CredentialsOf(creds, uid) = {}
    /\ \A s \in Sessions : pending[s].registration.user # uid

\* No request takes a user out of WithoutRegistration: registration options are
\* built by create_user alone, and for the row it has just inserted.
RegistrationNeverRestarts ==
    [][\A uid \in Uids : WithoutRegistration(uid) => WithoutRegistration(uid)'
      ]_vars

\* C12: every ceremony failure is recoverable by restarting the ceremony.  In
\* every state that follows a failed add_credential for user U, U owns a
\* credential, or a registration challenge is pending for U, or some request
\* begins a fresh registration ceremony for U.  (By RegistrationNeverRestarts a
\* state where none of the three holds is one from which U never owns a
\* credential.)
C12_RecoverableByRestart ==
    (last.op = "add_credential" /\ Rejected(last) /\ last.vuser # None)
    => \/ ~WithoutRegistration(last.vuser)
       \/ CanBeginRegistration(last.vuser)

----------------------------------------------------------------------------
\* C13: add_credential runs verification only in a session whose
\* registration_user_uid was set by a successful create_user and not since
\* cleared by a successful add_credential.  In a session where it is empty the
\* request is answered 400 without calling the verifier, without changing
\* the Credential Store and without setting the user_uid cookie; and
\* registration_user_uid becomes non-empty only in a create_user that issued
\* options, and empty only in an add_credential that answered verified:true.
C13_VerificationNeedsRegistrationUser ==
    [][\A s \in Sessions :
        /\ Req("add_credential", s) =>
             /\ session[s].registration_user_uid = None =>
                  /\ last'.status = 400
                  /\ ~last'.ran /\ last'.vuser = None
                  /\ creds' = creds
                  /\ last'.set_cookie = None /\ cookie' = cookie
                  /\ session' = session /\ pending' = pending
             /\ (last'.ran \/ last'.vuser # None) =>
                  /\ session[s].registration_user_uid # None
                  /\ last'.vuser = session[s].registration_user_uid
        /\ (session[s].registration_user_uid = None
              /\ session'[s].registration_user_uid # None)
             => (Req("create_user", s) /\ last'.options)
        /\ (session[s].registration_user_uid # None
              /\ session'[s].registration_user_uid = None)
             => (Req("add_credential", s) /\ last'.verified = "true")
      ]_vars

\* C13 witness: after a completed registration a further add_credential with a
\* response that checks out was answered 400 "Error user not found", although
\* a credential with another identifier could still be stored.
C13_Witness ==
    /\ last.op = "add_credential"
    /\ last.status = 400 /\ last.err = "Error user not found"
    /\ last.body.kind = "cred" /\ last.body.sig_ok
    /\ last.body.id \notin StoredIds(creds)
    /\ creds # {}
    /\ session[last.sid].registration_user_uid = None

----------------------------------------------------------------------------
\* C14: verify_login_credential runs verification only when the session's
\* login_user_uid names a stored user.  Otherwise it answers 400
\* {"verified": false} without calling the verifier and changes nothing;
\* login_switch_user empties login_user_uid; and login_user_uid, empty at the
\* start of a session, becomes non-empty only in a login or prepare_login that
\* resolved a user and issued options.
C14_VerificationNeedsLoginUser ==
    /\ \A s \in Sessions : session[s].login_user_uid = None
    /\ [][\A s \in Sessions :
            /\ Req("verify_login_credential", s) =>
                 /\ UserByUid(session[s].login_user_uid) = None =>
                      /\ last'.status = 400 /\ last'.verified = "false"
                      /\ ~last'.ran /\ last'.vuser = None
                      /\ creds' = creds /\ cookie' = cookie
                      /\ session' = session /\ pending' = pending
                 /\ (last'.ran \/ last'.vuser # None) =>
                      /\ UserByUid(session[s].login_user_uid) # None
                      /\ last'.vuser = session[s].login_user_uid
            /\ Req("login_switch_user", s) =>
                 session'[s].login_user_uid = None
            /\ (session[s].login_user_uid = None
                  /\ session'[s].login_user_uid # None)
                 => /\ Req("login", s) \/ Req("prepare_login", s)
                    /\ last'.options
                    /\ UserByUid(session'[s].login_user_uid) # None
       ]_vars

\* C14 witness: after login_switch_user the authentication challenge issued
\* before is still pending, and a response that embeds it, checks out and
\* names a credential of the user it was issued for was answered 400
\* {"verified": false} without verification.
C14_Witness ==
    /\ last.op = "verify_login_credential"
    /\ last.status = 400 /\ last.verified = "false" /\ ~last.ran
    /\ session[last.sid].login_user_uid = None
    /\ pending[last.sid].authentication # NoChallenge
    /\ last.body.kind = "cred" /\ last.body.sig_ok
    /\ last.body.challenge = pending[last.sid].authentication.challenge
    /\ OwnedCredential(creds, pending[last.sid].authentication.user,
                       last.body.id) # {}

----------------------------------------------------------------------------
\* C15: when the username or the email of the create_user form is that of a
\* stored user, the request reports DuplicateUser, adds no user, issues no
\* options and no pending challenge, and leaves the session as it was.  A
\* create_user that issues options has added one user with the form's
\* username and email and bound registration_user_uid and the pending
\* registration challenge to its uid; registration options are issued, and
\* registration_user_uid is set to a uid, by no other request.
C15_DuplicateUserChangesNothing ==
    [][\A s \in Sessions :
        /\ Req("create_user", s) =>
             LET username == last'.form[1]
                 email == last'.form[2]
                 collision == \E u \in users :
                                 u.username = username \/ u.email = email
             IN  /\ collision =>
                      /\ last'.err = "DuplicateUser"
                      /\ ~last'.options
                      /\ users' = users /\ creds' = creds
                      /\ pending' = pending
                      /\ session' = session
                 /\ last'.options =>
                      /\ ~collision
                      /\ Cardinality(users') = Cardinality(users) + 1
                      /\ \E u \in users' \ users :
                            /\ u.username = username /\ u.email = email
                            /\ session'[s].registration_user_uid = u.uid
                            /\ pending'[s].registration.user = u.uid
        /\ (\/ /\ session'[s].registration_user_uid # None
               /\ session'[s].registration_user_uid
                     # session[s].registration_user_uid
            \/ /\ pending'[s].registration # NoChallenge
               /\ pending'[s].registration # pending[s].registration)
           => (Req("create_user", s) /\ last'.options)
      ]_vars

\* C15 witness: in a session whose registration_user_uid names one user, a
\* create_user colliding with another stored user was answered DuplicateUser
\* and the session still names the first.
C15_Witness ==
    /\ last.op = "create_user"
    /\ last.err = "DuplicateUser"
    /\ session[last.sid].registration_user_uid # None
    /\ \E u \in users :
          /\ u.username = last.form[1] \/ u.email = last.form[2]
          /\ u.uid # session[last.sid].registration_user_uid
          /\ pending[last.sid].registration.user # u.uid

----------------------------------------------------------------------------
\* C16: the remembered-identity cookie is issued only on success.  A response
\* sets the user_uid cookie to the uid of user U only if the request verified
\* a ceremony for U, or a ceremony for U was verified before (U then owns a
\* credential: registration stores one, authentication needs one); a
\* prepare_login never sets it.
C16_CookieOnlyOnSuccess ==
    /\ (last.set_cookie # None /\ last.set_cookie # Deleted) =>
          \/ last.verified = "true" /\ last.vuser = last.set_cookie
          \/ CredentialsOf(creds, last.set_cookie) # {}
    /\ last.op = "prepare_login" => last.set_cookie = None

----------------------------------------------------------------------------
\* C17: session bindings track the latest Begin of their own kind only.  A
\* create_user that issues options sets registration_user_uid to the uid of
\* the user it created, and every other request leaves it or empties it; a
\* login or prepare_login that issues options sets login_user_uid to the uid
\* of the user the options are for, and every other request leaves it or
\* empties it.  create_user and add_credential never change login_user_uid;
\* login, prepare_login, login_switch_user and verify_login_credential never
\* change registration_user_uid; the verifier of a kind runs only in a session
\* whose binding of that kind is set.
C17_BindingsOfOwnKind ==
    [][\A s \in Sessions :
        LET reg == session[s].registration_user_uid
            reg2 == session'[s].registration_user_uid
            log == session[s].login_user_uid
            log2 == session'[s].login_user_uid
        IN  /\ IF Req("create_user", s) /\ last'.options
               THEN /\ reg2 = pending'[s].registration.user
                    /\ \E u \in users' \ users : u.uid = reg2
               ELSE reg2 = reg \/ reg2 = None
            /\ IF (Req("login", s) \/ Req("prepare_login", s)) /\ last'.options
               THEN /\ log2 = pending'[s].authentication.user
                    /\ UserByUid(log2) # None
               ELSE log2 = log \/ log2 = None
            /\ (Req("create_user", s) \/ Req("add_credential", s))
                 => (log2 = log
                       /\ pending'[s].authentication = pending[s].authentication)
            /\ (Req("login", s) \/ Req("prepare_login", s)
                  \/ Req("login_switch_user", s)
                  \/ Req("verify_login_credential", s))
                 => (reg2 = reg
                       /\ pending'[s].registration = pending[s].registration)
            /\ (Req("verify_login_credential", s) /\ last'.vuser # None)
                 => log # None
            /\ (Req("add_credential", s) /\ last'.vuser # None)
                 => reg # None
      ]_vars

\* C17 witness: a session that began the registration of one user and then a
\* login of another holds both bindings, each naming its own user.
C17_Witness ==
    /\ last.op \in {"login", "prepare_login"}
    /\ last.options
    /\ session[last.sid].registration_user_uid # None
    /\ session[last.sid].login_user_uid # None
    /\ session[last.sid].login_user_uid
          # session[last.sid].registration_user_uid
    /\ pending[last.sid].registration.user
          = session[last.sid].registration_user_uid

----------------------------------------------------------------------------
\* C18: when requests are handled one at a time, every user owns at most one
\* credential in every reachable state; the user a session's
\* registration_user_uid names, and the user a registration challenge is
\* pending for, owns none.
C18_AtMostOneCredential ==
    /\ \A u \in users : Cardinality(CredentialsOf(creds, u.uid)) <= 1
    /\ \A s \in Sessions :
          /\ session[s].registration_user_uid # None
               => CredentialsOf(creds, session[s].registration_user_uid) = {}
          /\ pending[s].registration # NoChallenge
               => CredentialsOf(creds, pending[s].registration.user) = {}

\* C18 witness: a create_user with the username or email of a user who owns
\* a credential was turned down while an identifier for a second credential
\* was still free.
C18_Witness ==
    /\ last.op = "create_user"
    /\ last.err = "DuplicateUser"
    /\ \E u \in users :
          /\ u.username = last.form[1] \/ u.email = last.form[2]
          /\ Cardinality(CredentialsOf(creds, u.uid)) = 1
          /\ StoredIds(creds) # CredIds

=============================================================================
